---------------------------- MODULE Spec2Model ----------------------------
(***************************************************************************)
(* A model of opensfm/dense.py: neighbour selection over the common-track  *)
(* table, the three-stage depthmap pipeline (estimate, clean, prune) run   *)
(* by compute_depthmaps, and the merger of the pruned depthmaps.           *)
(*                                                                         *)
(* Shots and tracks are identified by naturals.  An angle is an integer    *)
(* number of units of pi/180, so that pi/60 is 3 and pi/6 is 30.  A python *)
(* dict whose iteration order matters is a sequence of entries in          *)
(* insertion order.                                                        *)
(***************************************************************************)
EXTENDS Integers, Sequences, FiniteSets, TLC

\* ------------------------------------------------------------------ bounds
NumShots == 3
MaxNeighbors == 2
MaxProcesses == 2
MaxRuns == 2
MaxFaults == 1

\* ------------------------------------------------------- program constants
theta_min == 3
theta_max == 30
MinScore == 20

VARIABLES
    obs,            \* track graph: shot id -> set of track ids it observes
    recShots,       \* reconstruction.shots: shot ids in iteration order
    recPoints,      \* reconstruction.points: track ids with a 3D point
    theta,          \* angle at a track's point between two camera centers
    pointDepth,     \* track id -> depth of its point in the shot's frame (SpecRange)
    config,         \* data.config
    de,             \* the estimator: the max depth it is given, and the depth
                    \* and score maps its compute entry point returns; in
                    \* SpecRange the depth range computed for it, in SpecViews
                    \* also the shot it was created for and the calls made on it
    common_tracks,  \* the table of common_tracks_double_dict (SpecNeighbors)
    neighbors,      \* shot id -> neighbour list (shot ids, the shot first)
    pc,             \* position of the main process
    run,            \* number of the current invocation of compute_depthmaps
    jobs,           \* stage -> shot id -> status of the shot's job in this run
    raw,            \* raw depthmap artifacts
    clean,          \* clean depthmap artifacts
    pruned,         \* pruned depthmap artifacts
    views,          \* stage -> shot id -> add_view calls of the job, in order
    calls,          \* stage -> shot id -> calls of the capability's entry point, this run
    saves,          \* stage -> shot id -> saves of the stage's artifact, this run
    injected,       \* <<run, stage, shot>>: capability calls that raised
    merged          \* the merged point cloud

inputVars == <<obs, recShots, recPoints, theta, pointDepth, config, de>>
nbVars == <<common_tracks, neighbors>>
pipeVars == <<run, jobs, raw, clean, pruned, views, calls, saves, injected, merged>>
vars == <<inputVars, nbVars, pc, pipeVars>>

ShotIds == 1 .. NumShots
NumTracks == MinScore + 3
Tracks == 1 .. NumTracks

\* ----------------------------------------------------------------- helpers
Range(s) == {s[i] : i \in 1 .. Len(s)}

Min(a, b) == IF a < b THEN a ELSE b
Max(a, b) == IF a > b THEN a ELSE b

\* a slice that takes one element too many
SliceToInclusive(s, n) == SubSeq(s, 1, Min(n + 1, Len(s)))

\* python seq[:n]
SliceTo(s, n) ==
    IF n >= 0 THEN SubSeq(s, 1, Min(n, Len(s)))
    ELSE SubSeq(s, 1, Max(Len(s) + n, 0))

\* python seq[1:]
SliceFrom1(s) == SubSeq(s, 2, Len(s))

RECURSIVE SortedSeq(_)
SortedSeq(S) ==
    IF S = {} THEN <<>>
    ELSE LET m == CHOOSE x \in S : \A y \in S : x <= y
         IN <<m>> \o SortedSeq(S \ {m})

\* d[k] = v on an insertion-ordered dict
DictSet(d, k, v) ==
    IF \E i \in 1 .. Len(d) : d[i].id = k
    THEN [i \in 1 .. Len(d) |-> IF d[i].id = k THEN [id |-> k, tracks |-> v] ELSE d[i]]
    ELSE Append(d, [id |-> k, tracks |-> v])

DictHas(d, k) == \E i \in 1 .. Len(d) : d[i].id = k
DictGet(d, k) == d[CHOOSE i \in 1 .. Len(d) : d[i].id = k].tracks

\* ------------------------------------------------------ common-track table
\* tracking.all_common_tracks_without_features: one entry per shot pair that
\* co-observes at least one track, with the list of the shared tracks.
RECURSIVE PairSeq(_)
PairSeq(P) ==
    IF P = {} THEN <<>>
    ELSE LET m == CHOOSE x \in P : \A y \in P :
                      x[1] < y[1] \/ (x[1] = y[1] /\ x[2] <= y[2])
         IN <<m>> \o PairSeq(P \ {m})

all_common_tracks_without_features(tm) ==
    LET P == {pr \in (DOMAIN tm) \X (DOMAIN tm) :
                 pr[1] < pr[2] /\ tm[pr[1]] \cap tm[pr[2]] # {}}
        ps == PairSeq(P)
    IN [i \in 1 .. Len(ps) |->
           [im1 |-> ps[i][1], im2 |-> ps[i][2],
            v |-> SortedSeq(tm[ps[i][1]] \cap tm[ps[i][2]])]]

\* the table filled in one direction only
RECURSIVE FillTableOneWay(_, _, _)
FillTableOneWay(res, pairs, i) ==
    IF i > Len(pairs) THEN res
    ELSE LET e == pairs[i]
         IN FillTableOneWay([res EXCEPT ![e.im1] = DictSet(@, e.im2, e.v)], pairs, i + 1)

RECURSIVE FillTable(_, _, _)
FillTable(res, pairs, i) ==
    IF i > Len(pairs) THEN res
    ELSE LET e == pairs[i]
             r1 == [res EXCEPT ![e.im1] = DictSet(@, e.im2, e.v)]
             r2 == [r1 EXCEPT ![e.im2] = DictSet(@, e.im1, e.v)]
         IN FillTable(r2, pairs, i + 1)

common_tracks_double_dict(tm) ==
    LET common_tracks_per_pair == all_common_tracks_without_features(tm)
        res == [image \in DOMAIN tm |-> <<>>]
    IN FillTable(res, common_tracks_per_pair, 1)

\* ------------------------------------------------------ neighbour selection
angle_between_points(track, th) == th[track]

GoodAngle(a) == a > theta_min /\ a < theta_max

RECURSIVE TrackScore(_, _, _, _)
TrackScore(tracks, i, points, th) ==
    IF i > Len(tracks) THEN 0
    ELSE (IF tracks[i] \in points /\ GoodAngle(angle_between_points(tracks[i], th))
          THEN 1 ELSE 0) + TrackScore(tracks, i + 1, points, th)

AdmittedAtLeast(score) == score >= MinScore

Admitted(score) == score > MinScore

RECURSIVE Candidates(_, _, _, _, _)
Candidates(items, i, shots, points, th) ==
    IF i > Len(items) THEN <<>>
    ELSE LET score == TrackScore(items[i].tracks, 1, points, th)
             rest == Candidates(items, i + 1, shots, points, th)
         IN IF items[i].id \notin shots THEN rest
            ELSE IF Admitted(score)
                 THEN <<[other |-> items[i].id, score |-> score]>> \o rest
                 ELSE rest

\* a descending sort that puts a later entry before its equals
RECURSIVE InsertDescUnstable(_, _)
InsertDescUnstable(sorted, e) ==
    IF sorted = <<>> THEN <<e>>
    ELSE IF Head(sorted).score > e.score
         THEN <<Head(sorted)>> \o InsertDescUnstable(Tail(sorted), e)
         ELSE <<e>> \o sorted

\* ns.sort(key=score, reverse=True): stable, descending
RECURSIVE InsertDesc(_, _)
InsertDesc(sorted, e) ==
    IF sorted = <<>> THEN <<e>>
    ELSE IF Head(sorted).score >= e.score
         THEN <<Head(sorted)>> \o InsertDesc(Tail(sorted), e)
         ELSE <<e>> \o sorted

RECURSIVE SortDesc(_, _, _)
SortDesc(ns, i, acc) ==
    IF i > Len(ns) THEN acc ELSE SortDesc(ns, i + 1, InsertDesc(acc, ns[i]))

find_neighboring_images(shot, table, shots, points, th, num_neighbors) ==
    LET items == IF shot \in DOMAIN table THEN table[shot] ELSE <<>>
        ns == SortDesc(Candidates(items, 1, shots, points, th), 1, <<>>)
        top == SliceTo(ns, num_neighbors)
    IN <<shot>> \o [i \in 1 .. Len(top) |-> top[i].other]

\* --------------------------------------------------------------- artifacts
Stages == {"estimate", "clean", "prune"}

NoRaw == [exists |-> FALSE, depth |-> <<>>, score |-> <<>>, neighbor_ids |-> <<>>,
          views |-> <<>>]
NoClean == [exists |-> FALSE, views |-> <<>>]
NoPruned == [exists |-> FALSE, points |-> <<>>, normals |-> <<>>,
             colors |-> <<>>, labels |-> <<>>]
NoCloud == [saved |-> FALSE, run |-> 0, points |-> <<>>, normals |-> <<>>, colors |-> <<>>,
            labels |-> <<>>, warned |-> FALSE, loads |-> <<>>, raised |-> FALSE]

NoJobs == [k \in Stages |-> [s \in ShotIds |-> "none"]]
NoViews == [k \in Stages |-> [s \in ShotIds |-> <<>>]]
\* counters per stage runner, and for compute_depth_range
Counted == Stages \cup {"range"}
Zero == [k \in Counted |-> [s \in ShotIds |-> 0]]

PipeIdle ==
    /\ run = 0
    /\ jobs = NoJobs
    /\ raw = [s \in ShotIds |-> NoRaw]
    /\ clean = [s \in ShotIds |-> NoClean]
    /\ pruned = [s \in ShotIds |-> NoPruned]
    /\ views = NoViews
    /\ calls = Zero
    /\ saves = Zero
    /\ injected = {}
    /\ merged = NoCloud

\* the existence checks, the one of the prune stage left out
ExistsNoPruneGuard(k, s, rawS, cleanS, prunedS) ==
    CASE k = "estimate" -> rawS[s].exists
      [] k = "clean" -> cleanS[s].exists
      [] k = "prune" -> FALSE

\* data.raw_depthmap_exists / clean_depthmap_exists / pruned_depthmap_exists
Exists(k, s, rawS, cleanS, prunedS) ==
    CASE k = "estimate" -> rawS[s].exists
      [] k = "clean" -> cleanS[s].exists
      [] k = "prune" -> prunedS[s].exists

\* ------------------------------------------------------------ stage runners
KnownMethods == {"BRUTE_FORCE", "PATCH_MATCH", "PATCH_MATCH_SAMPLE"}

\* the entry point of the estimator called for a known method
EntryPoint(method) ==
    CASE method = "BRUTE_FORCE" -> "compute_brute_force"
      [] method = "PATCH_MATCH" -> "compute_patch_match"
      [] method = "PATCH_MATCH_SAMPLE" -> "compute_patch_match_sample"

\* the views taken after the target shot only
add_views_to_depth_estimator_others(nbrs, cfg) ==
    SliceTo(SliceFrom1(nbrs), cfg.depthmap_num_matching_views)

\* the shots handed to de.add_view, in order
add_views_to_depth_estimator(nbrs, cfg) ==
    SliceTo(nbrs, cfg.depthmap_num_matching_views + 1)

\* the shots handed to dc.add_view, in order
RECURSIVE add_views_to_depth_cleaner(_, _)
add_views_to_depth_cleaner(nbrs, rawS) ==
    IF nbrs = <<>> THEN <<>>
    ELSE IF ~rawS[Head(nbrs)].exists
         THEN add_views_to_depth_cleaner(Tail(nbrs), rawS)
         ELSE <<Head(nbrs)>> \o add_views_to_depth_cleaner(Tail(nbrs), rawS)

\* the shots handed to dp.add_view, in order
RECURSIVE add_views_to_depth_pruner(_, _)
add_views_to_depth_pruner(nbrs, cleanS) ==
    IF nbrs = <<>> THEN <<>>
    ELSE IF ~cleanS[Head(nbrs)].exists
         THEN add_views_to_depth_pruner(Tail(nbrs), cleanS)
         ELSE <<Head(nbrs)>> \o add_views_to_depth_pruner(Tail(nbrs), cleanS)

\* a mask that keeps a depth equal to the max depth
mask_depth_inclusive(depth, score, max_depth, min_score) ==
    depth * (IF depth <= max_depth THEN 1 ELSE 0) * (IF score > min_score THEN 1 ELSE 0)

\* good_score = score > min; depth = depth * (depth < max_depth) * good_score,
\* for one pixel
mask_depth(depth, score, max_depth, min_score) ==
    depth * (IF depth < max_depth THEN 1 ELSE 0) * (IF score > min_score THEN 1 ELSE 0)

\* compute_depthmap that takes an unknown method for patch match
compute_depthmap_default(s, nbrs, cfg, est, fault) ==
    LET vs == add_views_to_depth_estimator(nbrs, cfg)
        depth == [px \in 1 .. Len(est.depth) |->
                     mask_depth(est.depth[px], est.score[px], est.max_depth,
                                cfg.depthmap_min_correlation_score)]
    IN [views |-> vs,
        called |-> TRUE,
        raised |-> fault,
        log |-> [i \in 1 .. Len(vs) |-> [op |-> "add_view", arg |-> vs[i]]]
                \o <<[op |-> "compute_patch_match", arg |-> s]>>,
        art |-> [exists |-> TRUE, depth |-> depth, score |-> est.score,
                 neighbor_ids |-> SliceFrom1(nbrs), views |-> vs]]

\* The body of compute_depthmap after the existence guard.  est: the max depth
\* and what the compute entry point returns; fault: the entry point raises;
\* log: the calls made on the estimator, in order.
compute_depthmap(s, nbrs, cfg, est, fault) ==
    LET vs == add_views_to_depth_estimator(nbrs, cfg)
        known == cfg.depthmap_method \in KnownMethods
        depth == [px \in 1 .. Len(est.depth) |->
                     mask_depth(est.depth[px], est.score[px], est.max_depth,
                                cfg.depthmap_min_correlation_score)]
    IN [views |-> vs,
        called |-> known,
        raised |-> ~known \/ fault,
        log |-> [i \in 1 .. Len(vs) |-> [op |-> "add_view", arg |-> vs[i]]]
                \o (IF known
                    THEN <<[op |-> EntryPoint(cfg.depthmap_method), arg |-> s]>>
                    ELSE <<>>),
        art |-> [exists |-> TRUE, depth |-> depth, score |-> est.score,
                 neighbor_ids |-> SliceFrom1(nbrs), views |-> vs]]

\* clean_depthmap that loads every neighbour's raw depthmap without checking
clean_depthmap_strict(s, nbrs, rawS, fault) ==
    [views |-> nbrs,
     called |-> TRUE,
     raised |-> fault \/ \E n \in Range(nbrs) : ~rawS[n].exists,
     art |-> [exists |-> TRUE, views |-> nbrs]]

\* data.load_raw_depthmap raises when the shot has no raw depthmap
load_raw_depthmap_raises(rawS, s) == ~rawS[s].exists

\* clean_depthmap that saves without loading the shot's own raw depthmap
clean_depthmap_unloaded(s, nbrs, rawS, fault) ==
    LET vs == add_views_to_depth_cleaner(nbrs, rawS)
    IN [views |-> vs,
        called |-> TRUE,
        raised |-> fault,
        art |-> [exists |-> TRUE, views |-> vs]]

\* The body of clean_depthmap after the existence guard.  fault: dc.clean()
\* raises.  The shot's own raw depthmap is loaded before the save.
clean_depthmap(s, nbrs, rawS, fault) ==
    LET vs == add_views_to_depth_cleaner(nbrs, rawS)
    IN [views |-> vs,
        called |-> TRUE,
        raised |-> fault \/ load_raw_depthmap_raises(rawS, s),
        art |-> [exists |-> TRUE, views |-> vs]]

\* dp.prune(): the points the pruner returns, one per view it was given
PrunerOutput(s, vs) ==
    [exists |-> TRUE,
     points |-> [i \in 1 .. Len(vs) |-> <<"p", s, vs[i]>>],
     normals |-> [i \in 1 .. Len(vs) |-> <<"n", s, vs[i]>>],
     colors |-> [i \in 1 .. Len(vs) |-> <<"c", s, vs[i]>>],
     labels |-> [i \in 1 .. Len(vs) |-> <<"l", s, vs[i]>>]]

\* prune_depthmap that loads every neighbour's clean depthmap without checking
prune_depthmap_strict(s, nbrs, cleanS, fault) ==
    [views |-> nbrs,
     called |-> TRUE,
     raised |-> fault \/ \E n \in Range(nbrs) : ~cleanS[n].exists,
     art |-> PrunerOutput(s, nbrs)]

\* The body of prune_depthmap after the existence guard.  fault: dp.prune()
\* raises.
prune_depthmap(s, nbrs, cleanS, fault) ==
    LET vs == add_views_to_depth_pruner(nbrs, cleanS)
    IN [views |-> vs,
        called |-> TRUE,
        raised |-> fault,
        art |-> PrunerOutput(s, vs)]

\* a job wrapper without the try/except
Uncatched(raised) == IF raised THEN "escaped" ELSE "done"

\* compute_depthmap_catched / clean_depthmap_catched / prune_depthmap_catched:
\* the status the job ends with
Catched(raised) == IF raised THEN "failed" ELSE "done"

\* ------------------------------------------------------------------ merger
\* the loop of aggregate_depthmaps: the four lists of per-shot arrays,
\* concatenated, and the shots the provider was called for
RECURSIVE Gather(_, _)
Gather(shot_ids, provider) ==
    IF shot_ids = <<>>
    THEN [points |-> <<>>, normals |-> <<>>, colors |-> <<>>, labels |-> <<>>,
          loads |-> <<>>]
    ELSE LET h == provider[Head(shot_ids)]
             r == Gather(Tail(shot_ids), provider)
         IN [points |-> h.points \o r.points,
             normals |-> h.normals \o r.normals,
             colors |-> h.colors \o r.colors,
             labels |-> h.labels \o r.labels,
             loads |-> <<Head(shot_ids)>> \o r.loads]

\* the loop with each shot's arrays put in front of the earlier ones
RECURSIVE GatherReversed(_, _)
GatherReversed(shot_ids, provider) ==
    IF shot_ids = <<>>
    THEN [points |-> <<>>, normals |-> <<>>, colors |-> <<>>, labels |-> <<>>,
          loads |-> <<>>]
    ELSE LET h == provider[Head(shot_ids)]
             r == GatherReversed(Tail(shot_ids), provider)
         IN [points |-> r.points \o h.points,
             normals |-> r.normals \o h.normals,
             colors |-> r.colors \o h.colors,
             labels |-> r.labels \o h.labels,
             loads |-> <<Head(shot_ids)>> \o r.loads]

aggregate_depthmaps_reversed(shot_ids, provider, r) ==
    LET a == GatherReversed(shot_ids, provider)
    IN [saved |-> FALSE, run |-> r, points |-> a.points, normals |-> a.normals,
        colors |-> a.colors, labels |-> a.labels, warned |-> FALSE,
        loads |-> a.loads, raised |-> shot_ids = <<>>]

\* np.concatenate raises ValueError when it is given no array
aggregate_depthmaps(shot_ids, provider, r) ==
    LET a == Gather(shot_ids, provider)
    IN [saved |-> FALSE, run |-> r, points |-> a.points, normals |-> a.normals,
        colors |-> a.colors, labels |-> a.labels, warned |-> FALSE,
        loads |-> a.loads, raised |-> shot_ids = <<>>]

\* the guard of the empty input left out
EmptyInputNever(shot_ids) == FALSE

\* `not shot_ids` on the list merge_depthmaps builds
EmptyInput(shot_ids) == shot_ids = <<>>

merge_depthmaps_from_provider(shot_ids, provider, r) ==
    IF EmptyInput(shot_ids)
    THEN [saved |-> FALSE, run |-> r, points |-> <<>>, normals |-> <<>>,
          colors |-> <<>>, labels |-> <<>>, warned |-> TRUE, loads |-> <<>>,
          raised |-> FALSE]
    ELSE aggregate_depthmaps(shot_ids, provider, r)

merge_depthmaps(shots, prunedS, r) ==
    LET has(s) == prunedS[s].exists
    IN merge_depthmaps_from_provider(SelectSeq(shots, has), prunedS, r)

\* data.save_point_cloud(*point_cloud), reached unless the merge raised
save_point_cloud(cloud) == [cloud EXCEPT !.saved = ~cloud.raised]

\* ------------------------------------------------------------ the pipeline
\* compute_depth_range: the tracks of the shot whose depth enters the
\* percentiles; the range is undefined when there is none
depths(tm, points, s) == {t \in tm[s] : t \in points}

\* every shot handed to the stages
ScheduledAll(nbrs) == TRUE

\* compute_depthmaps skips a shot when len(neighbors[shot.id]) <= 1
Scheduled(nbrs) == ~(Len(nbrs) <= 1)

\* parallel_map: a job may start while fewer than `processes` jobs run, and
\* the call returns once no job is pending or running
parallel_map_may_start(js, processes) ==
    Cardinality({s \in ShotIds : js[s] = "running"}) < Max(processes, 1)
parallel_map_returns(js) == \A s \in ShotIds : js[s] \notin {"pending", "running"}
parallel_map_raises(js) == \E s \in ShotIds : js[s] = "escaped"

Arguments(nb) == [s \in ShotIds |->
                    IF s \in DOMAIN nb /\ Scheduled(nb[s]) THEN "pending" ELSE "none"]

FaultChoices == IF Cardinality(injected) < MaxFaults THEN BOOLEAN ELSE {FALSE}

\* what a shot observes: enough tracks to be a neighbour, one too few, or
\* only a track without a reconstructed point; shots seeing more come first
PObsChoices == {1 .. (MinScore + 1), 1 .. MinScore, {NumTracks}}
PTrackGraphs == {o \in [ShotIds -> PObsChoices] :
                    \A a, b \in ShotIds : a < b => Cardinality(o[a]) >= Cardinality(o[b])}

Init ==
    /\ obs \in PTrackGraphs
    /\ recShots = SortedSeq(ShotIds)
    /\ recPoints = 1 .. (NumTracks - 1)
    /\ theta = [t \in Tracks |-> theta_min + 1]
    /\ pointDepth = <<>>
    /\ config \in [processes : {1, MaxProcesses},
                   depthmap_num_neighbors : {MaxNeighbors},
                   depthmap_num_matching_views : {1},
                   depthmap_method : {"PATCH_MATCH", "SGM"},
                   depthmap_min_correlation_score : {1}]
    /\ de = [max_depth |-> 2, depth |-> <<1, 2>>, score |-> <<2, 2>>]
    /\ common_tracks = <<>>
    /\ neighbors = <<>>
    /\ pc = "idle"
    /\ PipeIdle

\* compute_depthmaps, up to the first parallel_map
StartRun ==
    /\ pc \in {"idle", "done"}
    /\ run < MaxRuns
    /\ run' = run + 1
    /\ LET table == common_tracks_double_dict(obs)
       IN neighbors' = [s \in Range(recShots) |->
                          find_neighboring_images(s, table, Range(recShots),
                              recPoints, theta, config.depthmap_num_neighbors)]
    /\ jobs' = [NoJobs EXCEPT !["estimate"] = Arguments(neighbors')]
    /\ views' = NoViews
    /\ calls' = [Zero EXCEPT !["range"] =
                     [s \in ShotIds |->
                         IF s \in Range(recShots) /\ Scheduled(neighbors'[s])
                         THEN 1 ELSE 0]]
    /\ saves' = Zero
    /\ pc' \in IF \E s \in Range(recShots) :
                     Scheduled(neighbors'[s]) /\ depths(obs, recPoints, s) = {}
               THEN {"estimate", "aborted"}
               ELSE {"estimate"}
    /\ UNCHANGED <<inputVars, common_tracks, raw, clean, pruned, injected, merged>>

\* a worker takes a job: the stage runner up to its existence guard
JobStart(k, s) ==
    /\ pc = k
    /\ jobs[k][s] = "pending"
    /\ parallel_map_may_start(jobs[k], config.processes)
    /\ jobs' = [jobs EXCEPT ![k][s] =
                   IF Exists(k, s, raw, clean, pruned) THEN "skipped" ELSE "running"]
    /\ UNCHANGED <<inputVars, nbVars, pc, run, raw, clean, pruned, views, calls,
                   saves, injected, merged>>

Record(k, s, o, fault) ==
    /\ views' = [views EXCEPT ![k][s] = o.views]
    /\ calls' = [calls EXCEPT ![k][s] = @ + (IF o.called THEN 1 ELSE 0)]
    /\ saves' = [saves EXCEPT ![k][s] = @ + (IF o.raised THEN 0 ELSE 1)]
    /\ injected' = IF fault /\ o.called THEN injected \cup {<<run, k, s>>} ELSE injected
    /\ jobs' = [jobs EXCEPT ![k][s] = Catched(o.raised)]

\* compute_depthmap_catched, from the guard to its end
EstimateFinish(s) ==
    /\ pc = "estimate"
    /\ jobs["estimate"][s] = "running"
    /\ \E fault \in FaultChoices :
         LET o == compute_depthmap(s, neighbors[s], config, de, fault)
         IN /\ Record("estimate", s, o, fault)
            /\ raw' = IF o.raised THEN raw ELSE [raw EXCEPT ![s] = o.art]
    /\ UNCHANGED <<inputVars, nbVars, pc, run, clean, pruned, merged>>

\* clean_depthmap_catched, from the guard to its end
CleanFinish(s) ==
    /\ pc = "clean"
    /\ jobs["clean"][s] = "running"
    /\ \E fault \in FaultChoices :
         LET o == clean_depthmap(s, neighbors[s], raw, fault)
         IN /\ Record("clean", s, o, fault)
            /\ clean' = IF o.raised THEN clean ELSE [clean EXCEPT ![s] = o.art]
    /\ UNCHANGED <<inputVars, nbVars, pc, run, raw, pruned, merged>>

\* a prune job that looks for its views among the pruned depthmaps
PruneFinishRacy(s) ==
    /\ pc = "prune"
    /\ jobs["prune"][s] = "running"
    /\ \E fault \in FaultChoices :
         LET o == prune_depthmap(s, neighbors[s], pruned, fault)
         IN /\ Record("prune", s, o, fault)
            /\ pruned' = IF o.raised THEN pruned ELSE [pruned EXCEPT ![s] = o.art]
    /\ UNCHANGED <<inputVars, nbVars, pc, run, raw, clean, merged>>

\* prune_depthmap_catched, from the guard to its end
PruneFinish(s) ==
    /\ pc = "prune"
    /\ jobs["prune"][s] = "running"
    /\ \E fault \in FaultChoices :
         LET o == prune_depthmap(s, neighbors[s], clean, fault)
         IN /\ Record("prune", s, o, fault)
            /\ pruned' = IF o.raised THEN pruned ELSE [pruned EXCEPT ![s] = o.art]
    /\ UNCHANGED <<inputVars, nbVars, pc, run, raw, clean, merged>>

\* the clean jobs handed over as soon as one estimate job has finished
StartCleanEarly ==
    /\ pc = "estimate"
    /\ \E s \in ShotIds : jobs["estimate"][s] \in {"done", "failed", "skipped"}
    /\ pc' = "clean"
    /\ jobs' = [jobs EXCEPT !["clean"] = Arguments(neighbors)]
    /\ UNCHANGED <<inputVars, nbVars, run, raw, clean, pruned, views, calls, saves,
                   injected, merged>>

\* the first parallel_map returns; the clean jobs are handed to the second
StartClean ==
    /\ pc = "estimate"
    /\ parallel_map_returns(jobs["estimate"])
    /\ pc' = IF parallel_map_raises(jobs["estimate"]) THEN "aborted" ELSE "clean"
    /\ jobs' = [jobs EXCEPT !["clean"] = Arguments(neighbors)]
    /\ UNCHANGED <<inputVars, nbVars, run, raw, clean, pruned, views, calls, saves,
                   injected, merged>>

\* the second parallel_map returns; the prune jobs are handed to the third
StartPrune ==
    /\ pc = "clean"
    /\ parallel_map_returns(jobs["clean"])
    /\ pc' = IF parallel_map_raises(jobs["clean"]) THEN "aborted" ELSE "prune"
    /\ jobs' = [jobs EXCEPT !["prune"] = Arguments(neighbors)]
    /\ UNCHANGED <<inputVars, nbVars, run, raw, clean, pruned, views, calls, saves,
                   injected, merged>>

\* the third parallel_map returns; merge_depthmaps and save_point_cloud
Merge ==
    /\ pc = "prune"
    /\ parallel_map_returns(jobs["prune"])
    /\ merged' = IF parallel_map_raises(jobs["prune"]) THEN merged
                 ELSE save_point_cloud(merge_depthmaps(recShots, pruned, run))
    /\ pc' = IF parallel_map_raises(jobs["prune"]) \/ merged'.raised
             THEN "aborted" ELSE "done"
    /\ UNCHANGED <<inputVars, nbVars, run, jobs, raw, clean, pruned, views, calls,
                   saves, injected>>

Work ==
    \/ \E k \in Stages, s \in ShotIds : JobStart(k, s)
    \/ \E s \in ShotIds : EstimateFinish(s)
    \/ \E s \in ShotIds : CleanFinish(s)
    \/ \E s \in ShotIds : PruneFinish(s)
    \/ StartClean
    \/ StartPrune
    \/ Merge

Next == StartRun \/ Work

Spec == Init /\ [][Next]_vars

\* every started job and every step of a started run is eventually taken
FairSpec == Spec /\ WF_vars(Work)

\* ------------------------------------- neighbour selection on its own
ObsChoices == {{}, 1 .. (MinScore + 1), 2 .. (MinScore + 2), 1 .. (MinScore + 2)}
PointChoices == {1 .. (NumTracks - 1), 2 .. (NumTracks - 1)}
AngleChoices == {theta_min, theta_min + 1, theta_max - 1, theta_max}
ThetaChoices == {[t \in Tracks |-> IF t = 1 THEN a ELSE theta_min + 1] :
                    a \in AngleChoices}
                \cup {[t \in Tracks |-> theta_max]}

NInit ==
    /\ \E G \in {ShotIds, ShotIds \ {1}} : obs \in [G -> ObsChoices]
    /\ recShots \in {SortedSeq(ShotIds), SortedSeq(ShotIds \ {NumShots})}
    /\ recPoints \in PointChoices
    /\ theta \in ThetaChoices
    /\ pointDepth = <<>>
    /\ config \in [depthmap_num_neighbors : 0 .. MaxNeighbors]
    /\ de = <<>>
    /\ common_tracks = <<>>
    /\ neighbors = <<>>
    /\ pc = "table"
    /\ PipeIdle

NBuildTable ==
    /\ pc = "table"
    /\ common_tracks' = common_tracks_double_dict(obs)
    /\ pc' = "query"
    /\ UNCHANGED <<inputVars, neighbors, pipeVars>>

NQuery(s) ==
    /\ pc = "query"
    /\ neighbors' = (s :> find_neighboring_images(
                        s, common_tracks, Range(recShots), recPoints, theta,
                        config.depthmap_num_neighbors))
    /\ UNCHANGED <<inputVars, common_tracks, pc, pipeVars>>

NNext == NBuildTable \/ \E s \in Range(recShots) : NQuery(s)

SpecNeighbors == NInit /\ [][NNext]_vars

\* ---------------------------------------------------- the merger on its own
MaxPoints == 2

RECURSIVE Orders(_)
Orders(S) ==
    {<<>>} \cup UNION {{<<x>> \o o : o \in Orders(S \ {x})} : x \in S}

MInit ==
    /\ pruned \in {[s \in ShotIds |->
                       IF n[s] < 0 THEN NoPruned
                       ELSE PrunerOutput(s, [i \in 1 .. n[s] |-> i])] :
                    n \in [ShotIds -> -1 .. MaxPoints]}
    /\ recShots \in Orders(ShotIds)
    /\ obs = <<>> /\ recPoints = {} /\ theta = <<>> /\ config = <<>> /\ de = <<>>
    /\ pointDepth = <<>>
    /\ common_tracks = <<>> /\ neighbors = <<>>
    /\ run = 0 /\ jobs = NoJobs
    /\ raw = [s \in ShotIds |-> NoRaw]
    /\ clean = [s \in ShotIds |-> NoClean]
    /\ views = NoViews /\ calls = Zero /\ saves = Zero /\ injected = {}
    /\ merged = NoCloud
    /\ pc = "merge"

\* merge_depthmaps on the store, and save_point_cloud
MMerge ==
    /\ pc = "merge"
    /\ merged' = save_point_cloud(merge_depthmaps(recShots, pruned, run))
    /\ pc' = IF merged'.raised THEN "aborted" ELSE "done"
    /\ UNCHANGED <<inputVars, nbVars, run, jobs, raw, clean, pruned, views, calls,
                   saves, injected>>

MNext == MMerge

SpecMerge == MInit /\ [][MNext]_vars

\* -------------------------------------------- the estimate stage on its own
NumPixels == 2
MaxDepth == 2

KInit ==
    /\ de \in [max_depth : 1 .. MaxDepth,
               depth : [1 .. NumPixels -> -1 .. (MaxDepth + 1)],
               score : [1 .. NumPixels -> 0 .. 2]]
    /\ config \in [processes : {1},
                   depthmap_num_neighbors : {MaxNeighbors},
                   depthmap_num_matching_views : {1},
                   depthmap_method : KnownMethods,
                   depthmap_min_correlation_score : {1}]
    /\ obs = <<>> /\ recPoints = {} /\ theta = <<>> /\ pointDepth = <<>>
    /\ recShots = SortedSeq(ShotIds)
    /\ common_tracks = <<>>
    /\ neighbors = [s \in ShotIds |-> <<s>> \o SortedSeq(ShotIds \ {s})]
    /\ PipeIdle
    /\ pc = "estimate"

\* compute_depthmap for one shot
KCompute(s) ==
    /\ pc = "estimate"
    /\ ~Exists("estimate", s, raw, clean, pruned)
    /\ LET o == compute_depthmap(s, neighbors[s], config, de, FALSE)
       IN /\ Record("estimate", s, o, FALSE)
          /\ raw' = IF o.raised THEN raw ELSE [raw EXCEPT ![s] = o.art]
    /\ UNCHANGED <<inputVars, nbVars, pc, run, clean, pruned, merged>>

KNext == \E s \in ShotIds : KCompute(s)

SpecMask == KInit /\ [][KNext]_vars

\* ------------------------------- the views of the estimate stage on its own
\* a neighbour list: the shot, then the shots of `order` other than it
ListFor(s, order) ==
    LET other(x) == x # s IN <<s>> \o SelectSeq(order, other)

VInit ==
    /\ de = [max_depth |-> 2, depth |-> <<1>>, score |-> <<2>>, shot |-> 0, log |-> <<>>]
    /\ config \in [processes : {1},
                   depthmap_num_neighbors : {MaxNeighbors},
                   depthmap_num_matching_views : 0 .. (MaxNeighbors + 1),
                   depthmap_method : KnownMethods \cup {"SGM"},
                   depthmap_min_correlation_score : {1}]
    /\ obs = <<>> /\ recPoints = {} /\ theta = <<>> /\ pointDepth = <<>>
    /\ recShots = SortedSeq(ShotIds)
    /\ common_tracks = <<>>
    /\ \E order \in Orders(ShotIds) : neighbors = [s \in ShotIds |-> ListFor(s, order)]
    /\ PipeIdle
    /\ pc = "estimate"

\* compute_depthmap for one shot, on an estimator created for it
VCompute(s) ==
    /\ pc = "estimate"
    /\ ~Exists("estimate", s, raw, clean, pruned)
    /\ LET o == compute_depthmap(s, neighbors[s], config, de, FALSE)
       IN /\ Record("estimate", s, o, FALSE)
          /\ raw' = IF o.raised THEN raw ELSE [raw EXCEPT ![s] = o.art]
          /\ de' = [de EXCEPT !.shot = s, !.log = o.log]
    /\ UNCHANGED <<obs, recShots, recPoints, theta, pointDepth, config, nbVars, pc,
                   run, clean, pruned, merged>>

VNext == \E s \in ShotIds : VCompute(s)

SpecViews == VInit /\ [][VNext]_vars

\* ------------------------------------------------ the depth range on its own
MaxObs == 3

\* a python value: None, a float that is not a number, or a number in
\* hundredths of the depth unit
None == [kind |-> "none", v |-> 0]
NaN == [kind |-> "nan", v |-> 0]
Num(x) == [kind |-> "num", v |-> x]

\* bool(a)
Truthy(a) == a.kind = "nan" \/ (a.kind = "num" /\ a.v # 0)

\* the override applied only where no bound is configured
python_and(a, b) == IF Truthy(a) THEN b ELSE a

\* a or b
python_or(a, b) == IF Truthy(a) THEN a ELSE b

RECURSIVE InsertAsc(_, _)
InsertAsc(sorted, e) ==
    IF sorted = <<>> THEN <<e>>
    ELSE IF Head(sorted) <= e
         THEN <<Head(sorted)>> \o InsertAsc(Tail(sorted), e)
         ELSE <<e>> \o sorted

RECURSIVE SortAsc(_, _, _)
SortAsc(xs, i, acc) ==
    IF i > Len(xs) THEN acc ELSE SortAsc(xs, i + 1, InsertAsc(acc, xs[i]))

\* np.percentile(xs, 10 * tenths) of a non-empty list, times ten: linear
\* interpolation between the two closest ranks of the sorted list
percentile(xs, tenths) ==
    LET sorted == SortAsc(xs, 1, <<>>)
        pos == (Len(xs) - 1) * tenths
        lo == (pos \div 10) + 1
        hi == Min(lo + 1, Len(xs))
    IN 10 * sorted[lo] + (pos % 10) * (sorted[hi] - sorted[lo])

\* the list `depths` built by the loop of compute_depth_range
depths_list(tm, points, zs, s) ==
    LET ts == SortedSeq(depths(tm, points, s))
    IN [i \in 1 .. Len(ts) |-> zs[ts[i]]]

\* empty: what np.percentile does with an empty list, raise or return nan
compute_depth_range(tm, points, zs, s, cfg, empty) ==
    LET ds == depths_list(tm, points, zs, s)
        min_depth == IF ds = <<>> THEN NaN ELSE Num(percentile(ds, 1) * 9)
        max_depth == IF ds = <<>> THEN NaN ELSE Num(percentile(ds, 9) * 11)
    IN IF ds = <<>> /\ empty = "raise"
       THEN [raised |-> TRUE, min_depth |-> None, max_depth |-> None]
       ELSE [raised |-> FALSE,
             min_depth |-> python_or(cfg.depthmap_min_depth, min_depth),
             max_depth |-> python_or(cfg.depthmap_max_depth, max_depth)]

ZChoices == {1, 2, 4}
ConfigDepths == {None, Num(0), Num(50), Num(700)}

RInit ==
    /\ obs \in [{1} -> {1 .. MaxObs, 2 .. MaxObs}]
    /\ recShots = <<1>>
    /\ recPoints \in SUBSET (1 .. MaxObs)
    /\ theta = <<>>
    /\ pointDepth \in [1 .. MaxObs -> ZChoices]
    /\ config \in [depthmap_min_depth : ConfigDepths, depthmap_max_depth : ConfigDepths]
    /\ de = <<>>
    /\ common_tracks = <<>>
    /\ neighbors = <<>>
    /\ PipeIdle
    /\ pc = "range"

\* compute_depth_range for the shot, and de.set_depth_range with its result
RCompute(s) ==
    /\ pc = "range"
    /\ \E empty \in {"raise", "nan"} :
          de' = compute_depth_range(obs, recPoints, pointDepth, s, config, empty)
    /\ pc' = IF de'.raised THEN "aborted" ELSE "ranged"
    /\ UNCHANGED <<obs, recShots, recPoints, theta, pointDepth, config, nbVars, pipeVars>>

RNext == \E s \in Range(recShots) : RCompute(s)

SpecRange == RInit /\ [][RNext]_vars

\* ================================================================== claims
Started == {"running", "done", "failed", "skipped", "escaped"}
Finished == {"done", "failed", "skipped"}
Present(k, s) ==
    CASE k = "estimate" -> raw[s].exists
      [] k = "clean" -> clean[s].exists
      [] k = "prune" -> pruned[s].exists
Artifact(k, s) ==
    CASE k = "estimate" -> raw[s]
      [] k = "clean" -> clean[s]
      [] k = "prune" -> pruned[s]
EstimateFailures == {s \in ShotIds : jobs["estimate"][s] = "failed"}
OneEstimateFault ==
    /\ pc = "done"
    /\ run = 1
    /\ Cardinality(EstimateFailures) = 1
    /\ \A f \in injected : f[2] = "estimate"

\* C1: failure isolation.  In a run that starts with no artifacts and in which
\* exactly one estimate job raises and no capability call of another stage
\* raises, every other scheduled shot's estimate, clean and prune job ends
\* normally and its raw, clean and pruned artifacts exist when the run is done.
C1_FailureIsolation ==
    OneEstimateFault =>
        \A t \in ShotIds \ EstimateFailures :
            jobs["estimate"][t] # "none" =>
                /\ \A k \in Stages : jobs[k][t] = "done" /\ saves[k][t] = 1
                /\ raw[t].exists /\ clean[t].exists /\ pruned[t].exists

C1_Witness ==
    /\ OneEstimateFault
    /\ \E t \in ShotIds \ EstimateFailures :
          /\ \A k \in Stages : jobs[k][t] = "done"
          /\ \E x \in EstimateFailures : x \in Range(neighbors[t])

\* C2: every invocation of compute_depthmaps completes: whatever jobs fail, and
\* also when the reconstruction holds a shot whose observed tracks have no
\* reconstructed point, the run reaches merge_depthmaps and save_point_cloud
\* and no exception leaves compute_depthmaps.  Stated as: every behaviour
\* settles either before its first invocation or after an invocation whose
\* merged cloud has been saved; an invocation left unfinished never settles.
C2_RunCompletes ==
    <>[](pc = "idle" \/ (pc = "done" /\ merged.saved /\ merged.run = run))

C2_Witness ==
    /\ pc = "done" /\ merged.saved /\ merged.run = run
    /\ \E s \in ShotIds : depths(obs, recPoints, s) = {} /\ obs[s] # {}
    /\ \E k \in Stages, s \in ShotIds : jobs[k][s] = "failed"

\* C3: stage barrier.  No clean job has started while an estimate job is
\* pending or running, no prune job has started while a clean job is pending
\* or running, and the point cloud of a run is merged only after all its prune
\* jobs have finished.
C3_StageBarrier ==
    /\ (\E s \in ShotIds : jobs["clean"][s] \in Started) =>
           \A t \in ShotIds : jobs["estimate"][t] \in Finished \cup {"none"}
    /\ (\E s \in ShotIds : jobs["prune"][s] \in Started) =>
           \A t \in ShotIds : jobs["clean"][t] \in Finished \cup {"none"}
    /\ (merged.saved /\ merged.run = run) =>
           \A t \in ShotIds : jobs["prune"][t] \in Finished \cup {"none"}

\* jobs of one stage finish out of order, and the next stage has started
C3_Witness ==
    /\ \E s, t \in ShotIds :
          s < t /\ jobs["prune"][s] \in {"pending", "running"}
                /\ jobs["prune"][t] \in Finished
    /\ \E s, t \in ShotIds :
          s < t /\ jobs["clean"][s] = "failed" /\ jobs["clean"][t] = "done"

\* C4: idempotent checkpoint.  While the artifact of a stage exists for a
\* shot, no step calls add_view or the entry point of that stage's capability
\* for the shot, and no step saves or changes the artifact; so a later
\* invocation computes only what is missing.
C4_Idempotent ==
    [][\A k \in Stages, s \in ShotIds :
          Present(k, s) =>
              /\ Artifact(k, s)' = Artifact(k, s)
              /\ calls'[k][s] <= calls[k][s]
              /\ saves'[k][s] <= saves[k][s]
              /\ views'[k][s] = views[k][s] \/ views'[k][s] = <<>>]_vars

\* a second invocation skips a shot's existing artifact and computes a
\* missing one
C4_Witness ==
    /\ run = 2 /\ pc = "done"
    /\ \E s \in ShotIds :
          /\ jobs["estimate"][s] = "skipped" /\ calls["estimate"][s] = 0
          /\ jobs["prune"][s] = "skipped" /\ calls["prune"][s] = 0
    /\ \E t \in ShotIds :
          /\ jobs["estimate"][t] = "done" /\ calls["estimate"][t] = 1
          /\ raw[t].exists

\* ------------------------------------------------- claims on SpecNeighbors
Budget == config.depthmap_num_neighbors
Items(s) == IF s \in DOMAIN common_tracks THEN common_tracks[s] ELSE <<>>
Qualifying(tracks) ==
    Cardinality({i \in 1 .. Len(tracks) :
                    /\ tracks[i] \in recPoints
                    /\ theta_min < theta[tracks[i]]
                    /\ theta[tracks[i]] < theta_max})
Survivors(s) ==
    {i \in 1 .. Len(Items(s)) :
        Items(s)[i].id \in Range(recShots) /\ Qualifying(Items(s)[i].tracks) > MinScore}
Returned(s) == Range(SliceFrom1(neighbors[s]))

\* C5: the list find_neighboring_images returns starts with the queried shot,
\* also when no candidate survives, and has at most N+1 elements.
C5_TargetFirstAndBudget ==
    \A s \in DOMAIN neighbors :
        /\ Len(neighbors[s]) >= 1
        /\ neighbors[s][1] = s
        /\ Len(neighbors[s]) <= Budget + 1

\* candidates exist, the budget is positive, and none survives
C5_Witness ==
    /\ pc = "query"
    /\ \E s \in DOMAIN neighbors :
          /\ neighbors[s] = <<s>>
          /\ Budget >= 1
          /\ \E i \in 1 .. Len(Items(s)) : Items(s)[i].id \in Range(recShots)

\* C6: a candidate is scored by its shared tracks that have a reconstructed
\* point seen under an angle strictly between pi/60 and pi/6; a candidate with
\* a score of 20 or less is never returned, and one with a score of 21 or more
\* is returned whenever the survivors fit the budget.
C6_ScoreThreshold ==
    \A s \in DOMAIN neighbors :
        \A i \in 1 .. Len(Items(s)) :
            LET c == Items(s)[i]
                q == Qualifying(c.tracks)
            IN c.id \in Range(recShots) =>
                  /\ q <= MinScore => c.id \notin Returned(s)
                  /\ (q >= MinScore + 1 /\ Cardinality(Survivors(s)) <= Budget)
                        => c.id \in Returned(s)

\* one candidate with exactly 21 qualifying tracks is returned and another
\* with exactly 20 is not
C6_Witness ==
    \E s \in DOMAIN neighbors :
        \E i, j \in 1 .. Len(Items(s)) :
            /\ Qualifying(Items(s)[i].tracks) = MinScore + 1
            /\ Items(s)[i].id \in Returned(s)
            /\ Qualifying(Items(s)[j].tracks) = MinScore
            /\ Len(Items(s)[j].tracks) > MinScore
            /\ Items(s)[j].id \in Range(recShots)
            /\ Items(s)[j].id \notin Returned(s)

\* C7: the common-track table has one key per shot of the track graph, an
\* empty inner table for a shot that shares no track, and for every two shots
\* that share a track the same list, the shared tracks, in both directions.
C7_TableSymmetric ==
    pc = "query" =>
        /\ DOMAIN common_tracks = DOMAIN obs
        /\ \A a, b \in DOMAIN obs :
              IF a # b /\ obs[a] \cap obs[b] # {}
              THEN /\ DictHas(common_tracks[a], b)
                   /\ DictHas(common_tracks[b], a)
                   /\ DictGet(common_tracks[a], b) = DictGet(common_tracks[b], a)
                   /\ Range(DictGet(common_tracks[a], b)) = obs[a] \cap obs[b]
              ELSE ~DictHas(common_tracks[a], b)

C7_Witness ==
    /\ pc = "query"
    /\ \E a \in DOMAIN obs : common_tracks[a] = <<>>
    /\ \E a, b \in DOMAIN obs : a < b /\ DictHas(common_tracks[b], a)

\* ----------------------------------------------------- claims on SpecMerge
Arrays == {"points", "normals", "colors", "labels"}
RECURSIVE BlockOffset(_)
BlockOffset(j) ==
    IF j <= 1 THEN 0
    ELSE BlockOffset(j - 1) +
         (IF pruned[recShots[j - 1]].exists
          THEN Len(pruned[recShots[j - 1]].points) ELSE 0)
NoneEligible == \A s \in Range(recShots) : ~pruned[s].exists

\* C8: the merged arrays hold, for the shots with a pruned artifact in the
\* reconstruction's shot order, each shot's entries as one contiguous block in
\* their own order, P1+...+Pk entries in all; a shot without a pruned artifact
\* contributes nothing.
C8_MergeConcatenates ==
    pc = "done" =>
        \A f \in Arrays :
            /\ Len(merged[f]) = BlockOffset(Len(recShots) + 1)
            /\ \A j \in 1 .. Len(recShots) :
                  pruned[recShots[j]].exists =>
                      \A i \in 1 .. Len(pruned[recShots[j]][f]) :
                          merged[f][BlockOffset(j) + i] = pruned[recShots[j]][f][i]

\* two non-empty blocks, the shot with the larger id first, and a shot
\* without a pruned artifact between them
C8_Witness ==
    /\ pc = "done"
    /\ Len(recShots) >= 3
    /\ recShots[1] > recShots[3]
    /\ pruned[recShots[1]].exists /\ Len(pruned[recShots[1]].points) = 1
    /\ ~pruned[recShots[2]].exists
    /\ pruned[recShots[3]].exists /\ Len(pruned[recShots[3]].points) = 2
    /\ Len(merged.points) = 3

\* C9: with no shot eligible the merger returns four empty arrays and warns;
\* it raises nothing and never calls the provider.
C9_EmptyMerge ==
    (pc \in {"done", "aborted"} /\ NoneEligible) =>
        /\ pc = "done"
        /\ ~merged.raised
        /\ merged.warned
        /\ merged.loads = <<>>
        /\ \A f \in Arrays : merged[f] = <<>>

C9_Witness ==
    /\ pc = "done"
    /\ NoneEligible
    /\ Len(recShots) >= 2
    /\ merged.warned
    /\ \E s \in ShotIds : pruned[s].exists

\* ------------------------------------------------------ claims on SpecMask
MinCorrelation == config.depthmap_min_correlation_score
MaskedOut(px) == de.depth[px] >= de.max_depth \/ de.score[px] <= MinCorrelation

\* C10 as stated: a saved depth is zero if the raw depth is at or above the
\* max depth or the score is at or below the minimum score, and otherwise is
\* non-zero and equal to the raw depth.
C10_MaskedElseNonZero ==
    \A s \in ShotIds :
        raw[s].exists =>
            \A px \in 1 .. Len(de.depth) :
                IF MaskedOut(px)
                THEN raw[s].depth[px] = 0
                ELSE raw[s].depth[px] # 0 /\ raw[s].depth[px] = de.depth[px]

\* C10 amended: a saved depth is zero if the raw depth is at or above the max
\* depth or the score is at or below the minimum score, and otherwise is equal
\* to the raw depth, which is zero when the estimator returned zero.
C10_MaskedElseRaw ==
    \A s \in ShotIds :
        raw[s].exists =>
            /\ Len(raw[s].depth) = Len(de.depth)
            /\ \A px \in 1 .. Len(de.depth) :
                  IF MaskedOut(px)
                  THEN raw[s].depth[px] = 0
                  ELSE raw[s].depth[px] = de.depth[px]

\* one pixel kept with its non-zero depth, one at the max depth zeroed
C10_Witness ==
    \E s \in ShotIds :
        /\ raw[s].exists
        /\ \E p, q \in 1 .. Len(de.depth) :
              /\ ~MaskedOut(p) /\ raw[s].depth[p] # 0
              /\ de.depth[q] = de.max_depth /\ de.score[q] > MinCorrelation
              /\ raw[s].depth[q] = 0

\* ----------------------------------------------------- claims on SpecRange
Seen == depths_list(obs, recPoints, pointDepth, 1)
\* the k-th smallest of the depths, by counting
KthSmallest(k) ==
    CHOOSE v \in Range(Seen) :
        /\ Cardinality({i \in 1 .. Len(Seen) : Seen[i] < v}) < k
        /\ k <= Cardinality({i \in 1 .. Len(Seen) : Seen[i] <= v})
\* ten times the percentile of rank 10 * tenths
Rank10(tenths) ==
    LET pos == (Len(Seen) - 1) * tenths
        lo == KthSmallest((pos \div 10) + 1)
        hi == KthSmallest(Min((pos \div 10) + 2, Len(Seen)))
    IN 10 * lo + (pos % 10) * (hi - lo)
Configured(c) == c # None /\ c # Num(0)

\* C11: each bound of the depth range is overridden on its own.  The min is
\* the configured depthmap_min_depth when that is neither null nor zero and
\* otherwise 0.9 times the 10th percentile of the depths; the max is the
\* configured depthmap_max_depth when that is neither null nor zero and
\* otherwise 1.1 times the 90th percentile.
C11_PerBoundOverride ==
    (pc = "ranged" /\ Seen # <<>>) =>
        /\ de.min_depth = IF Configured(config.depthmap_min_depth)
                          THEN config.depthmap_min_depth
                          ELSE Num(9 * Rank10(1))
        /\ de.max_depth = IF Configured(config.depthmap_max_depth)
                          THEN config.depthmap_max_depth
                          ELSE Num(11 * Rank10(9))

\* the min is overridden and the max is computed, interpolated between two
\* different depths
C11_Witness ==
    /\ pc = "ranged"
    /\ Len(Seen) = 3
    /\ Configured(config.depthmap_min_depth)
    /\ config.depthmap_max_depth = Num(0)
    /\ de.min_depth = config.depthmap_min_depth
    /\ de.max_depth.kind = "num"
    /\ de.max_depth.v > 110 * KthSmallest(2)
    /\ de.max_depth.v < 110 * KthSmallest(3)

\* ------------------------------------------- further claims on the pipeline
Reached(k) ==
    CASE k = "estimate" -> pc \in {"estimate", "clean", "prune", "done"}
      [] k = "clean" -> pc \in {"clean", "prune", "done"}
      [] k = "prune" -> pc \in {"prune", "done"}

\* C12: a shot whose neighbour list has at most one element gets no job in any
\* stage and no depth range: no add_view, no capability call, no save, and no
\* raw, clean or pruned artifact.  A shot with two or more gets its depth
\* range computed once and one job in each stage the run has reached, which
\* calls the capability and saves at most once and has ended when the run is
\* done.
C12_ShortListExcluded ==
    \A s \in DOMAIN neighbors :
        IF Len(neighbors[s]) <= 1
        THEN /\ calls["range"][s] = 0
             /\ \A k \in Stages :
                   /\ jobs[k][s] = "none"
                   /\ views[k][s] = <<>> /\ calls[k][s] = 0 /\ saves[k][s] = 0
                   /\ ~Present(k, s)
        ELSE /\ calls["range"][s] = 1
             /\ \A k \in Stages :
                   /\ calls[k][s] <= 1 /\ saves[k][s] <= 1
                   /\ Reached(k) => jobs[k][s] # "none"
                   /\ pc = "done" => jobs[k][s] \in Finished

\* a finished run with a shot left out although it shares tracks with a
\* scheduled one, and a shot that went through the three stages
C12_Witness ==
    /\ pc = "done"
    /\ \E s \in DOMAIN neighbors :
          /\ Len(neighbors[s]) = 1
          /\ Cardinality(obs[s]) >= MinScore
          /\ \A k \in Stages : jobs[k][s] = "none"
    /\ \E t \in DOMAIN neighbors :
          /\ Len(neighbors[t]) >= 2
          /\ \A k \in Stages : jobs[k][t] = "done" /\ Present(k, t)

Upstream(k, n) ==
    CASE k = "clean" -> raw[n].exists
      [] k = "prune" -> clean[n].exists
Remaining(k, t) ==
    LET has(n) == Upstream(k, n) IN SelectSeq(neighbors[t], has)
Ran(k, t) == jobs[k][t] \in {"done", "failed"}

\* C13: a neighbour without its upstream artifact is skipped.  A clean or
\* prune job that ran has passed to add_view exactly the shots of its
\* neighbour list whose raw (clean) artifact exists, in order; and when the
\* target's own upstream artifact exists and the capability's entry point did
\* not raise, the job ended normally and saved its artifact, built from those
\* views.
C13_MissingNeighborSkipped ==
    \A t \in ShotIds :
        /\ Ran("clean", t) =>
              /\ views["clean"][t] = Remaining("clean", t)
              /\ (raw[t].exists /\ <<run, "clean", t>> \notin injected) =>
                    /\ jobs["clean"][t] = "done"
                    /\ saves["clean"][t] = 1
                    /\ clean[t].exists /\ clean[t].views = Remaining("clean", t)
        /\ Ran("prune", t) =>
              /\ views["prune"][t] = Remaining("prune", t)
              /\ (clean[t].exists /\ <<run, "prune", t>> \notin injected) =>
                    /\ jobs["prune"][t] = "done"
                    /\ saves["prune"][t] = 1
                    /\ pruned[t].exists
                    /\ Len(pruned[t].points) = Len(Remaining("prune", t))

\* a shot cleaned and pruned without a neighbour whose estimate job failed
C13_Witness ==
    \E t \in DOMAIN neighbors, n \in ShotIds :
        /\ n # t /\ n \in Range(neighbors[t])
        /\ ~raw[n].exists /\ ~clean[n].exists
        /\ jobs["clean"][t] = "done" /\ jobs["prune"][t] = "done"
        /\ n \notin Range(views["clean"][t]) /\ views["clean"][t] # <<>>
        /\ n \notin Range(views["prune"][t]) /\ views["prune"][t] # <<>>
        /\ clean[t].exists /\ pruned[t].exists

\* ----------------------------------------------------- claims on SpecViews
MatchingViews == config.depthmap_num_matching_views

\* C14: the neighbour ids saved with a raw depthmap are the ids of the shots
\* other than the target that were passed to the estimator's add_view, in the
\* same order.
C14_SavedIdsAreUsedIds ==
    \A s \in ShotIds :
        raw[s].exists => raw[s].neighbor_ids = SliceFrom1(raw[s].views)

Ingested(s) == SubSeq(neighbors[s], 1, Min(MatchingViews + 1, Len(neighbors[s])))
ComputeOps == {"compute_brute_force", "compute_patch_match", "compute_patch_match_sample"}

\* C16: the estimator of a job receives one add_view per shot of
\* neighbors[:K+1], K the number of matching views, in the order of the list
\* and the target first, and after them at most one call of a compute entry
\* point: exactly one for a known method, none for an unknown one.
C16_AddViewOrder ==
    de.shot # 0 =>
        LET exp == Ingested(de.shot)
            n == Len(exp)
        IN /\ Len(de.log) >= n
           /\ \A i \in 1 .. n : de.log[i] = [op |-> "add_view", arg |-> exp[i]]
           /\ de.log[1].arg = de.shot
           /\ \A i, j \in 1 .. n : i # j => de.log[i].arg # de.log[j].arg
           /\ views["estimate"][de.shot] = exp
           /\ IF config.depthmap_method \in KnownMethods
              THEN /\ Len(de.log) = n + 1
                   /\ de.log[n + 1].op \in ComputeOps
                   /\ calls["estimate"][de.shot] = 1
              ELSE Len(de.log) = n /\ calls["estimate"][de.shot] = 0

\* a list longer than K+1 is cut, the target and one neighbour are added,
\* and the entry point is called after them
C16_Witness ==
    /\ de.shot # 0
    /\ MatchingViews = 1
    /\ Len(neighbors[de.shot]) = 3
    /\ Len(de.log) = 3
    /\ de.log[2] = [op |-> "add_view", arg |-> neighbors[de.shot][2]]
    /\ de.log[3].op = "compute_patch_match"
    /\ neighbors[de.shot][2] > neighbors[de.shot][3]

\* ------------------------------------------- further claims on SpecNeighbors
IndexOf(s, id) == CHOOSE i \in 1 .. Len(Items(s)) : Items(s)[i].id = id
ScoreAt(s, i) == Qualifying(Items(s)[i].tracks)
\* entry i of the table ranks before entry j
Before(s, i, j) ==
    ScoreAt(s, i) > ScoreAt(s, j) \/ (ScoreAt(s, i) = ScoreAt(s, j) /\ i < j)

\* C15: the list after the queried shot holds the first N surviving candidates
\* by descending score, candidates of equal score in the order of the inner
\* table; a survivor left out ranks after every one returned.
C15_RankedStable ==
    \A s \in DOMAIN neighbors :
        LET ret == SliceFrom1(neighbors[s])
            at(i) == IndexOf(s, ret[i])
        IN /\ Len(ret) = Min(Budget, Cardinality(Survivors(s)))
           /\ \A i \in 1 .. Len(ret) : ret[i] \in {Items(s)[x].id : x \in Survivors(s)}
           /\ \A i \in 1 .. Len(ret) - 1 : Before(s, at(i), at(i + 1))
           /\ \A c \in Survivors(s) :
                 Items(s)[c].id \notin Range(ret) =>
                     \A i \in 1 .. Len(ret) : Before(s, at(i), c)

\* two survivors of equal score and room for one: the first of the table is
\* returned
C15_Witness ==
    \E s \in DOMAIN neighbors :
        /\ Budget = 1
        /\ Cardinality(Survivors(s)) = 2
        /\ \E i, j \in Survivors(s) :
              /\ i < j /\ ScoreAt(s, i) = ScoreAt(s, j)
              /\ neighbors[s] = <<s, Items(s)[i].id>>

\* -------------------------------------- claims on the pipeline, continued
UnknownMethod == config.depthmap_method \notin KnownMethods

\* C17: with an unknown depthmap_method an estimate job of a shot without a
\* raw depthmap ends as failed: no entry point of the estimator is called and
\* no raw depthmap is saved.  The exception stays in the job: no job lets it
\* escape, the run is not aborted, and every other estimate job handed to the
\* stage is run as well before the clean stage starts.
C17_UnknownMethodFailsJobOnly ==
    UnknownMethod =>
        /\ pc # "aborted"
        /\ \A k \in Stages, s \in ShotIds : jobs[k][s] # "escaped"
        /\ \A s \in ShotIds :
              /\ ~raw[s].exists
              /\ calls["estimate"][s] = 0 /\ saves["estimate"][s] = 0
              /\ jobs["estimate"][s] \in Finished => jobs["estimate"][s] = "failed"
              /\ (Reached("clean") /\ s \in DOMAIN neighbors /\ Len(neighbors[s]) >= 2)
                    => jobs["estimate"][s] = "failed"

\* a finished run in which several estimate jobs failed on the method after
\* adding their views
C17_Witness ==
    /\ UnknownMethod
    /\ pc = "done" /\ merged.saved
    /\ injected = {}
    /\ \E s, t \in ShotIds :
          /\ s # t
          /\ jobs["estimate"][s] = "failed" /\ views["estimate"][s] # <<>>
          /\ jobs["estimate"][t] = "failed" /\ views["estimate"][t] # <<>>

\* C18: a shot has a pruned depthmap only if it has a clean depthmap, and the
\* merged point cloud is loaded only from shots that have a clean depthmap.
C18_PrunedImpliesClean ==
    /\ \A s \in ShotIds : pruned[s].exists => clean[s].exists
    /\ (pc = "done" /\ merged.saved) =>
           \A i \in 1 .. Len(merged.loads) : clean[merged.loads[i]].exists

\* C19: a shot has a clean depthmap only if it has a raw depthmap; a clean job
\* of a shot without a raw depthmap saves nothing.
C19_CleanImpliesRaw ==
    /\ \A s \in ShotIds : clean[s].exists => raw[s].exists
    /\ \A s \in ShotIds :
          (Ran("clean", s) /\ ~raw[s].exists) =>
              jobs["clean"][s] = "failed" /\ saves["clean"][s] = 0

\* the clean job of a shot whose estimate job failed has run, fed by the raw
\* depthmaps of its neighbours, and has left no clean depthmap
C19_Witness ==
    \E s \in ShotIds :
        /\ jobs["estimate"][s] = "failed"
        /\ jobs["clean"][s] = "failed"
        /\ <<run, "clean", s>> \notin injected
        /\ views["clean"][s] # <<>>
        /\ ~raw[s].exists /\ ~clean[s].exists

\* what the runs up to run r leave, from the neighbour lists, the method and
\* the capability calls that raised alone
Listed(s) == s \in DOMAIN neighbors /\ Len(neighbors[s]) >= 2
Raised(r, k, s) == <<r, k, s>> \in injected

RECURSIVE ExpRaw(_, _)
ExpRaw(r, s) ==
    IF r = 0 THEN FALSE
    ELSE ExpRaw(r - 1, s) \/ (Listed(s) /\ ~UnknownMethod /\ ~Raised(r, "estimate", s))

ExpCleanViews(r, s) ==
    LET has(n) == ExpRaw(r, n) IN SelectSeq(neighbors[s], has)

RECURSIVE ExpClean(_, _)
ExpClean(r, s) ==
    IF r = 0 THEN NoClean
    ELSE IF ExpClean(r - 1, s).exists THEN ExpClean(r - 1, s)
    ELSE IF Listed(s) /\ ExpRaw(r, s) /\ ~Raised(r, "clean", s)
         THEN [exists |-> TRUE, views |-> ExpCleanViews(r, s)]
         ELSE NoClean

ExpPruneViews(r, s) ==
    LET has(n) == ExpClean(r, n).exists IN SelectSeq(neighbors[s], has)

RECURSIVE ExpPruned(_, _)
ExpPruned(r, s) ==
    IF r = 0 THEN NoPruned
    ELSE IF ExpPruned(r - 1, s).exists THEN ExpPruned(r - 1, s)
    ELSE IF Listed(s) /\ ~Raised(r, "prune", s)
         THEN PrunerOutput(s, ExpPruneViews(r, s))
         ELSE NoPruned

\* C20: no race within a stage.  The views a clean or prune job feeds and the
\* artifact it leaves are a function of the neighbour lists, the method and
\* the set of capability calls that raised: they depend neither on the order
\* in which the jobs of the stage start and finish nor on the number of
\* processes, and so do the artifacts a finished run leaves.
C20_StageDeterministic ==
    \A s \in ShotIds :
        /\ Ran("estimate", s) => raw[s].exists = ExpRaw(run, s)
        /\ Ran("clean", s) =>
              /\ views["clean"][s] = ExpCleanViews(run, s)
              /\ clean[s] = ExpClean(run, s)
        /\ Ran("prune", s) =>
              /\ views["prune"][s] = ExpPruneViews(run, s)
              /\ pruned[s] = ExpPruned(run, s)
        /\ pc = "done" =>
              /\ raw[s].exists = ExpRaw(run, s)
              /\ clean[s] = ExpClean(run, s)
              /\ pruned[s] = ExpPruned(run, s)

\* two processes: a prune job has finished, after an estimate job failed,
\* while the prune job of a shot before it in the list is still running
C20_Witness ==
    /\ pc = "prune"
    /\ config.processes >= 2
    /\ \E s, t \in ShotIds :
          /\ s < t
          /\ jobs["prune"][s] = "running"
          /\ jobs["prune"][t] = "done"
          /\ s \in Range(neighbors[t]) /\ t \in Range(neighbors[s])
    /\ \E x \in ShotIds : jobs["estimate"][x] = "failed"

=============================================================================
